---- MODULE Spec2Model ----
(***************************************************************************)
(* A model of pyhash: the cross-process hash of structured Python values   *)
(* (src/src/pyhash/core/hasher.py) and its type registry                   *)
(* (src/src/pyhash/core/registry.py).                                      *)
(*                                                                         *)
(* Byte strings are sequences of byte codes.  hashlib.md5 is an external   *)
(* primitive: Md5 models it as a collision-free opaque function, the       *)
(* digest of `data` being `data` between two out-of-band markers.  The     *)
(* order of two digests (sorted() on bytes) is the lexicographic order of  *)
(* these sequences: a fixed total order, as the byte order of real md5     *)
(* digests is.                                                             *)
(*                                                                         *)
(* Python values are records tagged by `kind`:                             *)
(*   none | bool(b) | int(n) | float(neg, whole, frac) | str(s) | bytes(s) *)
(*   list(items) | tuple(items) | set(items) | frozenset(items)            *)
(*   dict(items: sequence of <<key, value>> in insertion order)            *)
(*   obj(type, proto, data): an instance of a user class                   *)
(* An instance of a user subclass of a built-in type is the record of the  *)
(* built-in value with the fields type, proto and data added.              *)
(* The items of a set are listed in its iteration order.                   *)
(***************************************************************************)
EXTENDS Integers, Sequences, FiniteSets, TLC

VARIABLES
    registry,   \* TypeRegistry._handlers: sequence of <<type, handler>>, insertion order
    cache,      \* the three lru_cache tables: [str, int, float], each LRU first
    calls,      \* the native call stack: one record per active my_hash call
    plan,       \* the operations the caller performs, in order
    pos,        \* index of the next operation of plan
    results,    \* outcome of every operation of plan performed so far
    invoked,    \* handlers invoked during the current top-level my_hash call
    lookup      \* the get_handler call of a second thread (used by SpecThreads)

vars == <<registry, cache, calls, plan, pos, results, invoked, lookup>>

----------------------------------------------------------------------------
(* Bounds of the model *)

\* longest list / tuple / set in the generated inputs
MaxLen == 2
\* deepest single-key dict wrapping in the generated inputs
MaxNest == 3
\* capacity of each lru_cache, scaled down from maxsize=10000
CacheCap == 1
\* number of simultaneously active my_hash calls the interpreter allows
\* (the native recursion limit, scaled down)
RecLimit == 3
\* most registrations before the call whose handler resolution is examined
MaxResolveRegs == 3

----------------------------------------------------------------------------
(* Byte strings *)

\* lexicographic order of byte strings: Python's < on bytes and on str
LexLess(a, b) ==
    \/ /\ Len(a) < Len(b)
       /\ \A i \in 1..Len(a) : a[i] = b[i]
    \/ \E i \in 1..Len(a) :
          /\ i <= Len(b)
          /\ a[i] < b[i]
          /\ \A j \in 1..(i - 1) : a[j] = b[j]

B_COMMA == <<44>>
B_CUSTOM == <<99, 117, 115, 116, 111, 109>>

TYPE_NONE == <<0>>
TYPE_INT == <<1>>
TYPE_FLOAT == <<1>>
TYPE_STR == <<2>>
TYPE_BYTES == <<3>>
TYPE_LIST == <<108, 105, 115, 116>>
TYPE_TUPLE == <<116, 117, 112, 108, 101>>
TYPE_DICT == <<100, 105, 99, 116>>
TYPE_SET == <<115, 101, 116>>
\* frozenset given the prefix of set: the variant against which the separation
\* of the kinds is tested
FrozensetAsSet == <<115, 101, 116>>
TYPE_FROZENSET == <<102, 114, 111, 122, 101, 110, 115, 101, 116>>

\* the placeholder b"" stored in a fresh result slot
EMPTY == <<>>

\* md5(data).digest(): opaque and collision-free; 256 and 257 delimit a digest
Md5(data) == <<256>> \o data \o <<257>>

\* x is the digest of some byte string (16 bytes in the program)
IsDigest(x) == Len(x) >= 2 /\ x[1] = 256 /\ x[Len(x)] = 257

RECURSIVE Digits(_)
\* str(n) of a non-negative int: its decimal digits
Digits(n) == IF n < 10 THEN <<48 + n>> ELSE Digits(n \div 10) \o <<48 + (n % 10)>>

\* a bool written as the digit of its integer value: the variant against
\* which the separation of booleans from the integers is tested
PackBoolAsDigit(b) == IF b THEN <<49>> ELSE <<48>>

\* struct.pack(">?", b)
PackBool(b) == IF b THEN <<1>> ELSE <<0>>

----------------------------------------------------------------------------
(* Python values *)

VNone == [kind |-> "none"]
VBool(b) == [kind |-> "bool", b |-> b]
VInt(n) == [kind |-> "int", n |-> n]
VFloat(neg, whole, frac) == [kind |-> "float", neg |-> neg, whole |-> whole, frac |-> frac]
VStr(s) == [kind |-> "str", s |-> s]
VBytes(s) == [kind |-> "bytes", s |-> s]
VList(items) == [kind |-> "list", items |-> items]
VTuple(items) == [kind |-> "tuple", items |-> items]
VSet(items) == [kind |-> "set", items |-> items]
VFrozenSet(items) == [kind |-> "frozenset", items |-> items]
VDict(items) == [kind |-> "dict", items |-> items]
VObj(type, proto, data) == [kind |-> "obj", type |-> type, proto |-> proto, data |-> data]

\* inside a container, the container my_hash was called on: a reference back
\* to the root, which makes the value cyclic (list1.append(list1))
SelfRef == [kind |-> "cycle"]

\* the user classes: Derived is a subclass of Base, Leaf a subclass of Derived,
\* ListSub a subclass of list, StrSub a subclass of str
Types == {"Base", "Derived", "Leaf", "Other", "ListSub", "StrSub"}

\* type(obj).__name__ as bytes
TypeName(t) ==
    CASE t = "Base" -> <<66>>
      [] t = "Derived" -> <<68>>
      [] t = "Leaf" -> <<70>>
      [] t = "Other" -> <<79>>
      [] t = "ListSub" -> <<76>>
      [] t = "StrSub" -> <<83>>

\* the classes isinstance(obj, T) holds for
Mro(t) ==
    IF t = "Derived" THEN {"Derived", "Base"}
    ELSE IF t = "Leaf" THEN {"Leaf", "Derived", "Base"}
    ELSE {t}

ScalarKinds == {"none", "bool", "int", "float", "str", "bytes"}

\* str(v) for the values used as dict keys
PyStr(v) ==
    CASE v.kind = "none" -> <<78, 111, 110, 101>>
      [] v.kind = "bool" -> IF v.b THEN <<84, 114, 117, 101>> ELSE <<70, 97, 108, 115, 101>>
      [] v.kind = "int" -> Digits(v.n)
      [] v.kind = "float" ->
            (IF v.neg THEN <<45>> ELSE <<>>) \o Digits(v.whole) \o <<46>> \o Digits(v.frac)
      [] v.kind = "str" -> v.s
      [] v.kind = "bytes" -> <<98, 39>> \o v.s \o <<39>>
      [] v.kind = "obj" -> <<60>> \o TypeName(v.type) \o <<62>>

\* the number a bool, int or float stands for, as <<whole, frac>>
NumOf(v) ==
    CASE v.kind = "bool" -> <<IF v.b THEN 1 ELSE 0, 0>>
      [] v.kind = "int" -> <<v.n, 0>>
      [] v.kind = "float" -> <<v.whole, v.frac>>

IsNeg(v) == v.kind = "float" /\ v.neg /\ (v.whole # 0 \/ v.frac # 0)

\* a == b in Python, for scalars: numbers compare by value across bool, int
\* and float (so 0.0 == -0.0 and 1 == True), strings by their characters, the
\* others within their kind
PyEq(a, b) ==
    IF a.kind \in {"bool", "int", "float"} /\ b.kind \in {"bool", "int", "float"}
    THEN NumOf(a) = NumOf(b) /\ IsNeg(a) = IsNeg(b)
    ELSE IF a.kind = "str" /\ b.kind = "str" THEN a.s = b.s
    ELSE a = b

\* hasattr(v, '__hash_bytes__'): v exposes the capability
HasCapability(v) == "proto" \in DOMAIN v /\ v.proto # "none"

----------------------------------------------------------------------------
(* sorted() *)

RECURSIVE InsertAsc(_, _)
\* h inserted into the ascending sequence s, after the elements equal to it
InsertAsc(s, h) ==
    IF s = <<>> THEN <<h>>
    ELSE IF LexLess(h, s[1]) THEN <<h>> \o s
    ELSE <<s[1]>> \o InsertAsc(Tail(s), h)

RECURSIVE SortedAsc(_)
\* sorted(hash_list)
SortedAsc(s) ==
    IF s = <<>> THEN <<>>
    ELSE InsertAsc(SortedAsc(SubSeq(s, 1, Len(s) - 1)), s[Len(s)])

RECURSIVE InsertDesc(_, _)
InsertDesc(s, h) ==
    IF s = <<>> THEN <<h>>
    ELSE IF LexLess(s[1], h) THEN <<h>> \o s
    ELSE <<s[1]>> \o InsertDesc(Tail(s), h)

RECURSIVE SortedDesc(_)
\* sorted(hash_list, reverse=True)
SortedDesc(s) ==
    IF s = <<>> THEN <<>>
    ELSE InsertDesc(SortedDesc(SubSeq(s, 1, Len(s) - 1)), s[Len(s)])

RECURSIVE InsertItem(_, _)
\* the entry e inserted by str(key), after the entries whose key has the same str
InsertItem(s, e) ==
    IF s = <<>> THEN <<e>>
    ELSE IF LexLess(PyStr(e[1]), PyStr(s[1][1])) THEN <<e>> \o s
    ELSE <<s[1]>> \o InsertItem(Tail(s), e)

RECURSIVE SortedItems(_)
\* sorted(obj.items(), key=lambda x: str(x[0])): stable, ties keep insertion order
SortedItems(items) ==
    IF items = <<>> THEN <<>>
    ELSE InsertItem(SortedItems(SubSeq(items, 1, Len(items) - 1)), items[Len(items)])

RECURSIVE JoinComma(_)
\* b",".join(hashes), as the BytesIO loops write it
JoinComma(hashes) ==
    IF hashes = <<>> THEN <<>>
    ELSE IF Len(hashes) = 1 THEN hashes[1]
    ELSE hashes[1] \o B_COMMA \o JoinComma(Tail(hashes))

RECURSIVE JoinPairs(_)
\* the dict layout: key digest and value digest adjacent, entries comma-separated
JoinPairs(hashes) ==
    IF Len(hashes) < 2 THEN <<>>
    ELSE hashes[1] \o hashes[2]
         \o (IF Len(hashes) > 2 THEN B_COMMA \o JoinPairs(SubSeq(hashes, 3, Len(hashes)))
             ELSE <<>>)

----------------------------------------------------------------------------
(* The scalar caches: functools.lru_cache *)

EmptyCache == [str |-> <<>>, int |-> <<>>, float |-> <<>>]

\* two argument tuples (value, type_prefix) are the same cache key
KeyEq(k1, k2) == PyEq(k1[1], k2[1]) /\ k1[2] = k2[2]

\* position of the entry of tbl under `key`, 0 when there is none
Lookup(tbl, key) ==
    IF \E i \in 1..Len(tbl) : KeyEq(tbl[i].key, key)
    THEN CHOOSE i \in 1..Len(tbl) : KeyEq(tbl[i].key, key)
    ELSE 0

\* tbl without its i-th entry
Without(tbl, i) == SubSeq(tbl, 1, i - 1) \o SubSeq(tbl, i + 1, Len(tbl))

\* a call of an lru_cache-wrapped function whose body would return `computed`:
\* a hit returns the stored result and makes the entry the most recent; a miss
\* stores the result, evicting the least recent entry of a full table
LruCall(tbl, key, computed) ==
    LET i == Lookup(tbl, key) IN
    IF i # 0
    THEN [val |-> tbl[i].val, tbl |-> Without(tbl, i) \o <<tbl[i]>>, hit |-> TRUE]
    ELSE [val |-> computed,
          tbl |-> (IF Len(tbl) >= CacheCap THEN Tail(tbl) ELSE tbl)
                  \o <<[key |-> key, val |-> computed]>>,
          hit |-> FALSE]

\* _global_hash_string(s, type_prefix)
GlobalHashString(c, v, prefix) ==
    LET r == LruCall(c.str, <<v, prefix>>, Md5(prefix \o v.s))
    IN [val |-> r.val, cache |-> [c EXCEPT !.str = r.tbl]]

\* _global_hash_int(n, type_prefix)
GlobalHashInt(c, v, prefix) ==
    LET r == LruCall(c.int, <<v, prefix>>, Md5(prefix \o PyStr(v)))
    IN [val |-> r.val, cache |-> [c EXCEPT !.int = r.tbl]]

\* _global_hash_float(f, type_prefix)
GlobalHashFloat(c, v, prefix) ==
    LET r == LruCall(c.float, <<v, prefix>>, Md5(prefix \o PyStr(v)))
    IN [val |-> r.val, cache |-> [c EXCEPT !.float = r.tbl]]

\* _hash_primitive testing the exact type instead of isinstance, so that an
\* instance of a subclass of str falls through to the registry: the variant
\* against which the precedence of the primitive rules is tested
HashPrimitiveExactType(c, obj) ==
    CASE "type" \in DOMAIN obj -> [prim |-> FALSE, val |-> EMPTY, cache |-> c]
      [] obj.kind = "none" -> [prim |-> TRUE, val |-> Md5(TYPE_NONE), cache |-> c]
      [] obj.kind = "str" ->
            [prim |-> TRUE] @@ GlobalHashString(c, obj, TYPE_STR)
      [] obj.kind = "int" ->
            [prim |-> TRUE] @@ GlobalHashInt(c, obj, TYPE_INT)
      [] obj.kind = "float" ->
            [prim |-> TRUE] @@ GlobalHashFloat(c, obj, TYPE_FLOAT)
      [] obj.kind = "bool" ->
            [prim |-> TRUE, val |-> Md5(TYPE_INT \o PackBool(obj.b)), cache |-> c]
      [] obj.kind = "bytes" ->
            [prim |-> TRUE, val |-> Md5(TYPE_BYTES \o obj.s), cache |-> c]
      [] OTHER -> [prim |-> FALSE, val |-> EMPTY, cache |-> c]

\* _hash_primitive without the exclusion of bool from the int branch, so that
\* True and False go through the cached _global_hash_int: the variant against
\* which the cache population policy is tested
HashPrimitiveBoolCached(c, obj) ==
    CASE obj.kind = "none" -> [prim |-> TRUE, val |-> Md5(TYPE_NONE), cache |-> c]
      [] obj.kind = "str" ->
            [prim |-> TRUE] @@ GlobalHashString(c, obj, TYPE_STR)
      [] obj.kind \in {"int", "bool"} ->
            [prim |-> TRUE] @@ GlobalHashInt(c, obj, TYPE_INT)
      [] obj.kind = "float" ->
            [prim |-> TRUE] @@ GlobalHashFloat(c, obj, TYPE_FLOAT)
      [] obj.kind = "bytes" ->
            [prim |-> TRUE, val |-> Md5(TYPE_BYTES \o obj.s), cache |-> c]
      [] OTHER -> [prim |-> FALSE, val |-> EMPTY, cache |-> c]

\* Hasher._hash_primitive: [prim |-> obj is a primitive, val |-> its digest,
\* cache |-> the caches afterwards]
HashPrimitive(c, obj) ==
    CASE obj.kind = "none" -> [prim |-> TRUE, val |-> Md5(TYPE_NONE), cache |-> c]
      [] obj.kind = "str" ->
            [prim |-> TRUE] @@ GlobalHashString(c, obj, TYPE_STR)
      [] obj.kind = "int" ->
            [prim |-> TRUE] @@ GlobalHashInt(c, obj, TYPE_INT)
      [] obj.kind = "float" ->
            [prim |-> TRUE] @@ GlobalHashFloat(c, obj, TYPE_FLOAT)
      [] obj.kind = "bool" ->
            [prim |-> TRUE, val |-> Md5(TYPE_INT \o PackBool(obj.b)), cache |-> c]
      [] obj.kind = "bytes" ->
            [prim |-> TRUE, val |-> Md5(TYPE_BYTES \o obj.s), cache |-> c]
      [] OTHER -> [prim |-> FALSE, val |-> EMPTY, cache |-> c]

----------------------------------------------------------------------------
(* The type registry *)

\* the handlers callers register: "hA" and "hB" return bytes, "hRaise" raises
Handlers == {"hA", "hB", "hRaise"}

\* the behaviours of a __hash_bytes__ method: absent, returns bytes, raises
Protos == {"none", "bytes", "raise"}

\* position of type t in the registry, 0 when it is not registered
RegIndex(reg, t) ==
    IF \E i \in 1..Len(reg) : reg[i][1] = t
    THEN CHOOSE i \in 1..Len(reg) : reg[i][1] = t
    ELSE 0

\* register replacing the whole mapping by the new entry: the variant against
\* which the keeping of the other registrations is tested
RegisterInAlone(reg, t, h) == <<<<t, h>>>>

\* register keeping the handler a type already has: the variant against which
\* the replacement of an earlier registration is tested
RegisterInKeepFirst(reg, t, h) ==
    IF RegIndex(reg, t) # 0 THEN reg ELSE Append(reg, <<t, h>>)

\* TypeRegistry.register: self._handlers[type_] = handler (a dict keeps the
\* position of a key that is assigned again)
RegisterIn(reg, t, h) ==
    LET i == RegIndex(reg, t) IN
    IF i # 0 THEN [reg EXCEPT ![i] = <<t, h>>] ELSE Append(reg, <<t, h>>)

\* the first registered type, in insertion order, obj is an instance of; 0 if none
FirstInstance(reg, obj) ==
    IF \E i \in 1..Len(reg) : reg[i][1] \in Mro(obj.type)
    THEN CHOOSE i \in 1..Len(reg) :
            /\ reg[i][1] \in Mro(obj.type)
            /\ \A j \in 1..(i - 1) : reg[j][1] \notin Mro(obj.type)
    ELSE 0

\* get_handler with the registry consulted before the protocol: the variant
\* against which the precedence of __hash_bytes__ is tested
GetHandlerRegistryFirst(reg, obj) ==
    IF RegIndex(reg, obj.type) # 0 THEN reg[RegIndex(reg, obj.type)][2]
    ELSE IF FirstInstance(reg, obj) # 0 THEN reg[FirstInstance(reg, obj)][2]
    ELSE IF obj.proto # "none" THEN "proto"
    ELSE "nohandler"

\* get_handler without the protocol check: the variant against which the
\* honouring of unregistered __hash_bytes__ values is tested
GetHandlerRegistryOnly(reg, obj) ==
    IF RegIndex(reg, obj.type) # 0 THEN reg[RegIndex(reg, obj.type)][2]
    ELSE IF FirstInstance(reg, obj) # 0 THEN reg[FirstInstance(reg, obj)][2]
    ELSE "nohandler"

\* get_handler without the lookup of the exact type, the scan of the registered
\* types deciding alone: the variant against which the precedence of the exact
\* type over its ancestors is tested
GetHandlerScanOnly(reg, obj) ==
    IF obj.proto # "none" THEN "proto"
    ELSE IF FirstInstance(reg, obj) # 0 THEN reg[FirstInstance(reg, obj)][2]
    ELSE "nohandler"

\* TypeRegistry.get_handler: "proto" is the wrapper lambda o: o.__hash_bytes__(),
\* "nohandler" is None
GetHandler(reg, obj) ==
    IF obj.proto # "none" THEN "proto"
    ELSE IF RegIndex(reg, obj.type) # 0 THEN reg[RegIndex(reg, obj.type)][2]
    ELSE IF FirstInstance(reg, obj) # 0 THEN reg[FirstInstance(reg, obj)][2]
    ELSE "nohandler"

\* handler(current_obj): the bytes the call returns, or the exception it raises
RunHandler(h, obj) ==
    CASE h = "proto" ->
            IF obj.proto = "bytes"
            THEN [ok |-> TRUE, bytes |-> <<80>> \o obj.data, exc |-> "none"]
            ELSE [ok |-> FALSE, bytes |-> <<>>, exc |-> "raised by __hash_bytes__"]
      [] h = "hA" -> [ok |-> TRUE, bytes |-> <<65>> \o obj.data, exc |-> "none"]
      [] h = "hB" -> [ok |-> TRUE, bytes |-> <<66>> \o obj.data, exc |-> "none"]
      [] h = "hRaise" -> [ok |-> FALSE, bytes |-> <<>>, exc |-> "raised by hRaise"]

----------------------------------------------------------------------------
(* Hasher *)

\* the default of Hasher.__init__'s cache_size
DefaultCacheSize == 10000

\* Hasher._try_cache_immutable: returns None for every cache_size
TryCacheImmutable(size, obj) == EMPTY

\* _finalize_container writing a separator before the first child digest too:
\* the variant against which the bare-prefix digest of an empty container is
\* tested
FinalizeContainerSeparated(obj, child_hashes) ==
    CASE obj.kind = "list" ->
            [ok |-> TRUE, val |-> Md5(TYPE_LIST \o B_COMMA \o JoinComma(child_hashes))]
      [] obj.kind = "tuple" ->
            [ok |-> TRUE, val |-> Md5(TYPE_TUPLE \o B_COMMA \o JoinComma(child_hashes))]
      [] obj.kind = "dict" ->
            [ok |-> TRUE, val |-> Md5(TYPE_DICT \o B_COMMA \o JoinPairs(child_hashes))]
      [] obj.kind = "set" ->
            [ok |-> TRUE, val |-> Md5(TYPE_SET \o B_COMMA \o JoinComma(child_hashes))]
      [] obj.kind = "frozenset" ->
            [ok |-> TRUE, val |-> Md5(TYPE_FROZENSET \o B_COMMA \o JoinComma(child_hashes))]
      [] OTHER -> [ok |-> FALSE, val |-> EMPTY]

\* Hasher._finalize_container: the digest of a container from its child digests
FinalizeContainer(obj, child_hashes) ==
    CASE obj.kind = "list" -> [ok |-> TRUE, val |-> Md5(TYPE_LIST \o JoinComma(child_hashes))]
      [] obj.kind = "tuple" -> [ok |-> TRUE, val |-> Md5(TYPE_TUPLE \o JoinComma(child_hashes))]
      [] obj.kind = "dict" -> [ok |-> TRUE, val |-> Md5(TYPE_DICT \o JoinPairs(child_hashes))]
      [] obj.kind = "set" -> [ok |-> TRUE, val |-> Md5(TYPE_SET \o JoinComma(child_hashes))]
      [] obj.kind = "frozenset" ->
            [ok |-> TRUE, val |-> Md5(TYPE_FROZENSET \o JoinComma(child_hashes))]
      [] OTHER -> [ok |-> FALSE, val |-> EMPTY]

\* Hasher._fast_path: [done |-> a digest is returned, val |-> it, cache |-> the
\* caches afterwards]
FastPathOf(c, obj) ==
    LET p == HashPrimitive(c, obj) IN
    IF p.prim THEN [done |-> TRUE, val |-> p.val, cache |-> p.cache]
    ELSE IF obj.kind \in {"list", "tuple", "dict", "set", "frozenset"} /\ Len(obj.items) = 0
    THEN [done |-> TRUE,
          val |-> Md5(CASE obj.kind = "list" -> TYPE_LIST
                        [] obj.kind = "tuple" -> TYPE_TUPLE
                        [] obj.kind = "dict" -> TYPE_DICT
                        [] obj.kind = "set" -> TYPE_SET
                        [] obj.kind = "frozenset" -> TYPE_FROZENSET),
          cache |-> c]
    ELSE IF obj.kind \in {"list", "tuple"} /\ Len(obj.items) = 1
    THEN LET q == HashPrimitive(c, obj.items[1]) IN
         IF q.prim
         THEN [done |-> TRUE,
               val |-> Md5((IF obj.kind = "list" THEN TYPE_LIST ELSE TYPE_TUPLE) \o q.val),
               cache |-> q.cache]
         ELSE [done |-> FALSE, val |-> EMPTY, cache |-> q.cache]
    ELSE [done |-> FALSE, val |-> EMPTY, cache |-> c]

\* a work-list entry (obj, parent_array, index, is_post_process, child_array);
\* arrays are named by their position in the call's `arrays`, 0 is None
Frame(obj, arr, idx, post, child) ==
    [obj |-> obj, arr |-> arr, idx |-> idx, post |-> post, child |-> child]

NoIter == [obj |-> VNone, arr |-> 0, idx |-> 0, hashes |-> <<>>]

\* a my_hash call as it starts: `self` is the Hasher's cache_size
NewCall(size, obj) ==
    [self |-> size, obj |-> obj, pc |-> "fast", stack |-> <<>>, arrays |-> <<>>, it |-> NoIter]

\* [b""] * n
Blank(n) == [i \in 1..n |-> EMPTY]

\* the frames of the children of a tuple pushed first child first, so that
\* the last child is popped first: the variant against which the left-to-right
\* resolution of children is tested
RECURSIVE TupleFramesForward(_, _, _)
TupleFramesForward(items, child, n) ==
    IF n = 0 THEN <<>>
    ELSE TupleFramesForward(items, child, n - 1) \o <<Frame(items[n], child, n, FALSE, 0)>>

\* the frames of the children of a tuple, the last child pushed first
RECURSIVE TupleFrames(_, _, _)
TupleFrames(items, child, n) ==
    IF n = 0 THEN <<>>
    ELSE <<Frame(items[n], child, n, FALSE, 0)>> \o TupleFrames(items, child, n - 1)

\* the frames of the entries of a dict, the last entry pushed first, each value
\* before its key
RECURSIVE DictFrames(_, _, _)
DictFrames(sorted, child, n) ==
    IF n = 0 THEN <<>>
    ELSE <<Frame(sorted[n][2], child, 2 * n, FALSE, 0),
           Frame(sorted[n][1], child, 2 * n - 1, FALSE, 0)>>
         \o DictFrames(sorted, child, n - 1)

\* parent_array[index] = val
WriteSlot(a, arr, idx, val) == [a EXCEPT !.arrays[arr][idx] = val]

\* the outcome of one iteration of the while loop of my_hash: the call goes on
\* as `act`, or it raises `err`; `inv` lists the handler invocations made
Go(act, c, inv) ==
    [raise |-> FALSE, act |-> act, cache |-> c, inv |-> inv, err |-> [kind |-> "none"]]
Fail(a, c, inv, e) ==
    [raise |-> TRUE, act |-> a, cache |-> c, inv |-> inv, err |-> e]

\* the registry fallback with a failing handler swallowed into a best-effort
\* digest: the variant against which the surfacing of handler failures is tested
CustomStepSwallow(a, f, c, reg) ==
    LET h == GetHandler(reg, f.obj) IN
    IF h # "nohandler"
    THEN LET r == RunHandler(h, f.obj)
             inv == <<[handler |-> h, obj |-> f.obj]>> IN
         Go(WriteSlot(a, f.arr, f.idx, Md5(B_CUSTOM \o r.bytes)), c, inv)
    ELSE Fail(a, c, <<>>, [kind |-> "unsupported", etype |-> f.obj.type])

\* my_hash, lines 117-128: the registry fallback for the popped frame f
CustomStep(a, f, c, reg) ==
    LET h == GetHandler(reg, f.obj) IN
    IF h # "nohandler"
    THEN LET r == RunHandler(h, f.obj)
             inv == <<[handler |-> h, obj |-> f.obj]>> IN
         IF r.ok THEN Go(WriteSlot(a, f.arr, f.idx, Md5(B_CUSTOM \o r.bytes)), c, inv)
         ELSE Fail(a, c, inv, [kind |-> "handler", etype |-> f.obj.type, cause |-> r.exc])
    ELSE Fail(a, c, <<>>, [kind |-> "unsupported", etype |-> f.obj.type])

\* one iteration of the while loop with the children of a tuple hashed through
\* nested my_hash calls, as those of a list are: the variant against which the
\* dependence of the call depth on list and set nesting only is tested
StepFrameTupleNested(a, f, c, reg) ==
    LET p == HashPrimitive(c, f.obj) IN
    IF f.post
    THEN LET r == FinalizeContainer(f.obj, a.arrays[f.child]) IN
         IF r.ok THEN Go(WriteSlot(a, f.arr, f.idx, r.val), c, <<>>)
         ELSE Fail(a, c, <<>>, [kind |-> "unknown_container", etype |-> f.obj.kind])
    ELSE IF p.prim THEN Go(WriteSlot(a, f.arr, f.idx, p.val), p.cache, <<>>)
    ELSE IF f.obj.kind = "list"
    THEN IF Len(f.obj.items) = 0
         THEN Go(WriteSlot(a, f.arr, f.idx, Md5(TYPE_LIST)), c, <<>>)
         ELSE Go([a EXCEPT !.pc = "iter",
                           !.it = [obj |-> f.obj, arr |-> f.arr, idx |-> f.idx,
                                   hashes |-> <<>>]], c, <<>>)
    ELSE IF f.obj.kind = "tuple"
    THEN Go([a EXCEPT !.pc = "iter",
                      !.it = [obj |-> f.obj, arr |-> f.arr, idx |-> f.idx,
                              hashes |-> <<>>]], c, <<>>)
    ELSE IF f.obj.kind = "dict"
    THEN LET child == Len(a.arrays) + 1
             sorted == SortedItems(f.obj.items) IN
         Go([a EXCEPT !.arrays = Append(@, Blank(2 * Len(sorted))),
                      !.stack = @ \o <<Frame(f.obj, f.arr, f.idx, TRUE, child)>>
                                  \o DictFrames(sorted, child, Len(sorted))],
            c, <<>>)
    ELSE IF f.obj.kind \in {"set", "frozenset"}
    THEN IF f.obj.kind = "frozenset" /\ TryCacheImmutable(a.self, f.obj) # EMPTY
         THEN Go(WriteSlot(a, f.arr, f.idx, TryCacheImmutable(a.self, f.obj)), c, <<>>)
         ELSE Go([a EXCEPT !.pc = "iter",
                           !.it = [obj |-> f.obj, arr |-> f.arr, idx |-> f.idx,
                                   hashes |-> <<>>]], c, <<>>)
    ELSE CustomStep(a, f, c, reg)

\* one iteration of the while loop of my_hash on the call `a`, whose popped
\* frame is f
StepFrame(a, f, c, reg) ==
    LET p == HashPrimitive(c, f.obj) IN
    IF f.post
    THEN LET r == FinalizeContainer(f.obj, a.arrays[f.child]) IN
         IF r.ok THEN Go(WriteSlot(a, f.arr, f.idx, r.val), c, <<>>)
         ELSE Fail(a, c, <<>>, [kind |-> "unknown_container", etype |-> f.obj.kind])
    ELSE IF p.prim THEN Go(WriteSlot(a, f.arr, f.idx, p.val), p.cache, <<>>)
    ELSE IF f.obj.kind = "list"
    THEN IF Len(f.obj.items) = 0
         THEN Go(WriteSlot(a, f.arr, f.idx, Md5(TYPE_LIST)), c, <<>>)
         ELSE Go([a EXCEPT !.pc = "iter",
                           !.it = [obj |-> f.obj, arr |-> f.arr, idx |-> f.idx,
                                   hashes |-> <<>>]], c, <<>>)
    ELSE IF f.obj.kind = "tuple"
    THEN IF TryCacheImmutable(a.self, f.obj) # EMPTY
         THEN Go(WriteSlot(a, f.arr, f.idx, TryCacheImmutable(a.self, f.obj)), c, <<>>)
         ELSE LET child == Len(a.arrays) + 1 IN
              Go([a EXCEPT !.arrays = Append(@, Blank(Len(f.obj.items))),
                           !.stack = @ \o <<Frame(f.obj, f.arr, f.idx, TRUE, child)>>
                                       \o TupleFrames(f.obj.items, child, Len(f.obj.items))],
                 c, <<>>)
    ELSE IF f.obj.kind = "dict"
    THEN LET child == Len(a.arrays) + 1
             sorted == SortedItems(f.obj.items) IN
         Go([a EXCEPT !.arrays = Append(@, Blank(2 * Len(sorted))),
                      !.stack = @ \o <<Frame(f.obj, f.arr, f.idx, TRUE, child)>>
                                  \o DictFrames(sorted, child, Len(sorted))],
            c, <<>>)
    ELSE IF f.obj.kind \in {"set", "frozenset"}
    THEN IF f.obj.kind = "frozenset" /\ TryCacheImmutable(a.self, f.obj) # EMPTY
         THEN Go(WriteSlot(a, f.arr, f.idx, TryCacheImmutable(a.self, f.obj)), c, <<>>)
         ELSE Go([a EXCEPT !.pc = "iter",
                           !.it = [obj |-> f.obj, arr |-> f.arr, idx |-> f.idx,
                                   hashes |-> <<>>]], c, <<>>)
    ELSE CustomStep(a, f, c, reg)

\* the end of the loop with the digests of a list sorted ascending, as those
\* of a set are: the variant against which the descending order of the list
\* rule is tested
FinishIterAscending(a) ==
    LET k == a.it.obj.kind
        prefix == CASE k = "list" -> TYPE_LIST
                    [] k = "set" -> TYPE_SET
                    [] k = "frozenset" -> TYPE_FROZENSET
    IN [WriteSlot(a, a.it.arr, a.it.idx, Md5(prefix \o JoinComma(SortedAsc(a.it.hashes))))
            EXCEPT !.pc = "loop", !.it = NoIter]

\* the end of the loop over the items of a list or a set: the digests are
\* sorted, joined and digested into the destination slot
FinishIter(a) ==
    LET k == a.it.obj.kind
        sorted == IF k = "list" THEN SortedDesc(a.it.hashes) ELSE SortedAsc(a.it.hashes)
        prefix == CASE k = "list" -> TYPE_LIST
                    [] k = "set" -> TYPE_SET
                    [] k = "frozenset" -> TYPE_FROZENSET
    IN [WriteSlot(a, a.it.arr, a.it.idx, Md5(prefix \o JoinComma(sorted)))
            EXCEPT !.pc = "loop", !.it = NoIter]

----------------------------------------------------------------------------
(* The reference implementation of the tests *)

\* the first failed result of a sequence of results, or the digests of all
FirstError(rs) ==
    IF \E k \in 1..Len(rs) : rs[k].status # "ok"
    THEN rs[CHOOSE k \in 1..Len(rs) :
                /\ rs[k].status # "ok"
                /\ \A j \in 1..(k - 1) : rs[j].status = "ok"]
    ELSE [status |-> "ok", digest |-> EMPTY, err |-> [kind |-> "none"]]

RECURSIVE OriginalMyHash(_, _)
\* original_my_hash(obj), called at native call depth `depth`: recursive, lists
\* joined in index order, bool through the int/float branch as str(obj)
OriginalMyHash(v, depth) ==
    LET ok(d) == [status |-> "ok", digest |-> d, err |-> [kind |-> "none"]] IN
    IF depth > RecLimit
    THEN [status |-> "error", digest |-> EMPTY,
          err |-> [kind |-> "recursion", etype |-> "RecursionError"]]
    ELSE IF v.kind = "str" THEN ok(Md5(<<2>> \o v.s))
    ELSE IF v.kind \in {"int", "float", "bool"} THEN ok(Md5(<<1>> \o PyStr(v)))
    ELSE IF v.kind = "none" THEN ok(Md5(<<0>>))
    ELSE IF v.kind = "list"
    THEN LET rs == [k \in 1..Len(v.items) |-> OriginalMyHash(v.items[k], depth + 1)] IN
         IF FirstError(rs).status # "ok" THEN FirstError(rs)
         ELSE ok(Md5(<<108, 105, 115, 116>>
                     \o JoinComma([k \in 1..Len(rs) |-> rs[k].digest])))
    ELSE IF v.kind = "dict"
    THEN LET sorted == SortedItems(v.items)
             rs == [k \in 1..(2 * Len(sorted)) |->
                      OriginalMyHash(sorted[(k + 1) \div 2][IF k % 2 = 1 THEN 1 ELSE 2],
                                     depth + 1)] IN
         IF FirstError(rs).status # "ok" THEN FirstError(rs)
         ELSE ok(Md5(<<100, 105, 99, 116>>
                     \o JoinPairs([k \in 1..Len(rs) |-> rs[k].digest])))
    ELSE [status |-> "error", digest |-> EMPTY,
          err |-> [kind |-> "unsupported", etype |-> v.kind]]

----------------------------------------------------------------------------
(* The operations *)

Top == calls[Len(calls)]
Idle == calls = <<>>

HashOp(v, size) == [op |-> "hash", v |-> v, size |-> size]
RegisterOp(t, h) == [op |-> "register", type |-> t, handler |-> h]
ProcessOp == [op |-> "process"]

\* what a finished my_hash call gave its caller, with the registry it ran under
OkResult(d) ==
    [op |-> "hash", status |-> "ok", digest |-> d, err |-> [kind |-> "none"],
     reg |-> registry]
ErrResult(e) ==
    [op |-> "hash", status |-> "error", digest |-> EMPTY, err |-> e, reg |-> registry]

\* an exception leaves every active my_hash call: nothing in my_hash catches it
Raise(e) ==
    /\ calls' = <<>>
    /\ results' = Append(results, ErrResult(e))

\* `return d` of the innermost call: to the loop of the calling list or set
\* branch, or to the caller of the outermost call
ReturnValue(d) ==
    IF Len(calls) = 1
    THEN /\ calls' = <<>>
         /\ results' = Append(results, OkResult(d))
    ELSE /\ calls' = [SubSeq(calls, 1, Len(calls) - 1)
                        EXCEPT ![Len(calls) - 1].it.hashes = Append(@, d)]
         /\ UNCHANGED results

\* no get_handler call of a second thread
NoLookup == [pc |-> "none"]

\* the argument of the my_hash call of the caller that is in progress
Root == plan[pos - 1].v

\* a reference back to the root taken for None, which cuts the cycle: the
\* variant against which the absence of a digest for cyclic values is tested
DerefAsNone(x) == IF x.kind = "cycle" THEN VNone ELSE x

\* the object an item of a container is: a reference back to the root is the
\* root itself
Deref(x) == IF x.kind = "cycle" THEN Root ELSE x

\* the number of work-list entries the memory of the process holds: the
\* work-list of every acyclic input stays below it
MaxWork == 2 * (MaxNest + 2) + 2

\* register_type(type_)(handler) / TypeRegistry.register
Register ==
    /\ UNCHANGED lookup
    /\ Idle
    /\ pos <= Len(plan)
    /\ plan[pos].op = "register"
    /\ registry' = RegisterIn(registry, plan[pos].type, plan[pos].handler)
    /\ results' = Append(results, [op |-> "register"])
    /\ pos' = pos + 1
    /\ UNCHANGED <<cache, calls, plan, invoked>>

\* a new interpreter process imports the package: the module-level registry
\* and caches are created empty
NewProcess ==
    /\ UNCHANGED lookup
    /\ Idle
    /\ pos <= Len(plan)
    /\ plan[pos].op = "process"
    /\ registry' = <<>>
    /\ cache' = EmptyCache
    /\ results' = Append(results, [op |-> "process"])
    /\ pos' = pos + 1
    /\ UNCHANGED <<calls, plan, invoked>>

\* the caller calls hasher.my_hash(v)
Call ==
    /\ UNCHANGED lookup
    /\ Idle
    /\ pos <= Len(plan)
    /\ plan[pos].op = "hash"
    /\ calls' = <<NewCall(plan[pos].size, plan[pos].v)>>
    /\ invoked' = <<>>
    /\ pos' = pos + 1
    /\ UNCHANGED <<registry, cache, plan, results>>

\* my_hash, lines 87-96: the fast path, then the work-list is set up
FastPath ==
    /\ UNCHANGED lookup
    /\ ~Idle
    /\ Top.pc = "fast"
    /\ LET r == FastPathOf(cache, Top.obj) IN
       /\ cache' = r.cache
       /\ IF r.done THEN ReturnValue(r.val)
          ELSE /\ calls' = [calls EXCEPT ![Len(calls)] =
                              [@ EXCEPT !.pc = "loop",
                                        !.arrays = <<<<EMPTY>>>>,
                                        !.stack = <<Frame(Top.obj, 1, 1, FALSE, 0)>>]]
               /\ UNCHANGED results
    /\ UNCHANGED <<registry, plan, pos, invoked>>

\* my_hash, lines 98-128: one iteration of the while loop; stack.append raises
\* MemoryError when the work-list outgrows the memory
PopFrame ==
    /\ UNCHANGED lookup
    /\ ~Idle
    /\ Top.pc = "loop"
    /\ Top.stack # <<>>
    /\ LET f == [Top.stack[Len(Top.stack)] EXCEPT !.obj = Deref(@)]
           a == [Top EXCEPT !.stack = SubSeq(@, 1, Len(@) - 1)]
           r == StepFrame(a, f, cache, registry)
       IN /\ cache' = r.cache
          /\ invoked' = invoked \o r.inv
          /\ IF r.raise THEN Raise(r.err)
             ELSE IF Len(r.act.stack) > MaxWork
             THEN Raise([kind |-> "memory", etype |-> "MemoryError"])
             ELSE /\ calls' = [calls EXCEPT ![Len(calls)] = r.act]
                  /\ UNCHANGED results
    /\ UNCHANGED <<registry, plan, pos>>

\* _process_container, lines 211-213 and 267-269: self.my_hash(item) for the
\* next item; the interpreter raises RecursionError at its call-depth limit
IterCall ==
    /\ UNCHANGED lookup
    /\ ~Idle
    /\ Top.pc = "iter"
    /\ Len(Top.it.hashes) < Len(Top.it.obj.items)
    /\ IF Len(calls) >= RecLimit
       THEN Raise([kind |-> "recursion", etype |-> "RecursionError"])
       ELSE /\ calls' = Append(calls,
                           NewCall(Top.self, Deref(Top.it.obj.items[Len(Top.it.hashes) + 1])))
            /\ UNCHANGED results
    /\ UNCHANGED <<registry, cache, plan, pos, invoked>>

\* _process_container, lines 216-226 and 272-286
IterFinish ==
    /\ UNCHANGED lookup
    /\ ~Idle
    /\ Top.pc = "iter"
    /\ Len(Top.it.hashes) = Len(Top.it.obj.items)
    /\ calls' = [calls EXCEPT ![Len(calls)] = FinishIter(Top)]
    /\ UNCHANGED <<registry, cache, plan, pos, results, invoked>>

\* my_hash, line 130: return root_result[0]
Return ==
    /\ UNCHANGED lookup
    /\ ~Idle
    /\ Top.pc = "loop"
    /\ Top.stack = <<>>
    /\ ReturnValue(Top.arrays[1][1])
    /\ UNCHANGED <<registry, cache, plan, pos, invoked>>

Next ==
    \/ Register
    \/ NewProcess
    \/ Call
    \/ FastPath
    \/ PopFrame
    \/ IterCall
    \/ IterFinish
    \/ Return

----------------------------------------------------------------------------
(* Inputs *)

\* every sequence over S of length 0..n
RECURSIVE SeqsUpTo(_, _)
SeqsUpTo(S, n) ==
    IF n = 0 THEN {<<>>}
    ELSE LET prev == SeqsUpTo(S, n - 1) IN
         prev \cup {Append(s, x) : s \in {t \in prev : Len(t) = n - 1}, x \in S}

\* the sequences of s whose items are pairwise different under Python's ==
Distinct(s) == \A i, j \in 1..Len(s) : i # j => ~PyEq(s[i], s[j])

\* what a set or a dict key may hold
RECURSIVE Hashable(_)
Hashable(v) ==
    CASE v.kind \in {"list", "dict", "set"} -> FALSE
      [] v.kind \in {"tuple", "frozenset"} -> \A i \in 1..Len(v.items) : Hashable(v.items[i])
      [] OTHER -> TRUE

\* the containers of every kind over the items E, at most n long, dict keys in K
ContainersOver(E, K, n) ==
    LET seqs == SeqsUpTo(E, n)
        sets == {s \in SeqsUpTo({e \in E : Hashable(e)}, n) : Distinct(s)}
        entries == {<<k, v>> : k \in K, v \in E}
        dicts == {d \in SeqsUpTo(entries, n) :
                    \A i, j \in 1..Len(d) : i # j => ~PyEq(d[i][1], d[j][1])}
    IN {VList(s) : s \in seqs} \cup {VTuple(s) : s \in seqs}
       \cup {VSet(s) : s \in sets} \cup {VFrozenSet(s) : s \in sets}
       \cup {VDict(d) : d \in dicts}

\* the sequences s reordered
PermsSeq(s) ==
    {[i \in 1..Len(s) |-> s[p[i]]] : p \in Permutations(1..Len(s))}

RECURSIVE Variants(_, _)
RECURSIVE VariantSeqs(_, _, _)
\* the values v becomes when the items of its containers of the kinds in `kinds`,
\* at any depth, are put in another order
Variants(v, kinds) ==
    IF v.kind \in {"list", "tuple", "set", "frozenset", "dict"}
    THEN LET inner == VariantSeqs(v.items, kinds, v.kind = "dict")
             outer == IF v.kind \in kinds
                      THEN UNION {PermsSeq(t) : t \in inner}
                      ELSE inner
         IN {[v EXCEPT !.items = t] : t \in outer}
    ELSE {v}

\* the sequences whose i-th item is a variant of the i-th item of `items`; an
\* entry <<key, value>> of a dict varies in both
VariantSeqs(items, kinds, entries) ==
    IF items = <<>> THEN {<<>>}
    ELSE LET first == items[1]
             heads == IF entries
                      THEN {<<k, w>> : k \in Variants(first[1], kinds),
                                       w \in Variants(first[2], kinds)}
                      ELSE Variants(first, kinds)
         IN {<<h>> \o t : h \in heads, t \in VariantSeqs(Tail(items), kinds, entries)}

ContainerKinds == {"list", "tuple", "set", "frozenset", "dict"}

ObjBase == VObj("Base", "none", <<1>>)
ObjDerived == VObj("Derived", "none", <<2>>)
ObjOther == VObj("Other", "none", <<3>>)
ObjProto == VObj("Base", "bytes", <<4>>)
ObjProtoDerived == VObj("Derived", "bytes", <<5>>)
ObjProtoRaise == VObj("Other", "raise", <<6>>)
ObjLeaf == VObj("Leaf", "none", <<9>>)

Zero == VFloat(FALSE, 0, 0)
NegZero == VFloat(TRUE, 0, 0)

Scalars ==
    {VNone, VBool(TRUE), VBool(FALSE), VInt(0), VInt(1), VInt(12),
     Zero, NegZero, VFloat(FALSE, 1, 5),
     VStr(<<49>>), VStr(<<97>>), VBytes(<<97>>)}

Objects == {ObjBase, ObjDerived, ObjOther, ObjProto, ObjProtoDerived, ObjProtoRaise}

\* instances of user subclasses of list and of str that define __hash_bytes__
SubList ==
    [kind |-> "list", items |-> <<VInt(1), VInt(12)>>,
     type |-> "ListSub", proto |-> "bytes", data |-> <<7>>]
SubStr ==
    [kind |-> "str", s |-> <<97>>, type |-> "StrSub", proto |-> "bytes", data |-> <<8>>]

\* the family of single calls: scalars, instances, the containers over Elems and
\* each of these wrapped once more in every kind of container
Elems == {VInt(1), VStr(<<49>>), ObjBase, ObjOther}
Keys == {VInt(1), VStr(<<49>>)}

Level1 == ContainersOver(Elems, Keys, MaxLen)

Wrap(x) ==
    {VList(<<x>>), VList(<<VInt(1), x>>), VTuple(<<x>>), VTuple(<<x, VInt(1)>>),
     VDict(<<<<VStr(<<97>>), x>>>>)}
    \cup (IF Hashable(x)
          THEN {VSet(<<x>>), VFrozenSet(<<x>>), VDict(<<<<x, VInt(1)>>>>)}
          ELSE {})

Level2 == UNION {Wrap(x) : x \in Level1 \cup Objects}

RECURSIVE NestDict(_)
\* a dict nested n levels deep by single-key wrapping
NestDict(n) == IF n = 0 THEN VDict(<<>>) ELSE VDict(<<<<VStr(<<97>>), NestDict(n - 1)>>>>)

RECURSIVE NestList(_)
\* a list nested n levels deep
NestList(n) == IF n = 0 THEN VInt(1) ELSE VList(<<NestList(n - 1)>>)

RECURSIVE NestListOf(_, _)
\* the value x inside n nested lists
NestListOf(n, x) == IF n = 0 THEN x ELSE VList(<<NestListOf(n - 1, x)>>)

RECURSIVE NestTuple(_)
NestTuple(n) == IF n = 0 THEN VInt(1) ELSE VTuple(<<NestTuple(n - 1), VInt(1)>>)

Deep ==
    UNION {{NestDict(n), NestList(n), NestTuple(n), NestListOf(n, ObjOther),
            NestListOf(n, VSet(<<VInt(1), VInt(12)>>))} : n \in 1..(MaxNest + 1)}

Registrations ==
    {<<>>, <<RegisterOp("Base", "hA")>>, <<RegisterOp("Base", "hRaise")>>,
     <<RegisterOp("Base", "hA"), RegisterOp("Derived", "hB")>>,
     <<RegisterOp("ListSub", "hA")>>}

Sizes == {0, DefaultCacheSize}

SinglePlans ==
    {r \o <<HashOp(v, DefaultCacheSize)>> :
        r \in Registrations,
        v \in Scalars \cup Objects \cup {SubList, SubStr} \cup Level1 \cup Level2 \cup Deep}

\* the family of two calls on a value and on a reordering of it, by one Hasher
\* or by two, in one process or in two
PairElems == {VInt(1), Zero, NegZero, VTuple(<<NegZero, VInt(1)>>),
              VList(<<VInt(1), VInt(12)>>)}
PairKeys == {VInt(1), VStr(<<49>>)}

PairValues == ContainersOver(PairElems, PairKeys, MaxLen)

Between == {<<>>, <<ProcessOp>>}

PairPlans ==
    UNION {{<<HashOp(a, DefaultCacheSize)>> \o m \o <<HashOp(b, size)>> :
               m \in Between, size \in Sizes,
               b \in Variants(a, ContainerKinds)} : a \in PairValues}

\* the family of repeated calls on a value, after a call that fills the caches
\* or after none
Warmups == {<<>>} \cup {<<HashOp(w, DefaultCacheSize)>> : w \in Scalars}

RepeatValues == Scalars \cup ContainersOver({NegZero, VInt(1)}, {VInt(1)}, MaxLen)

RepeatPlans ==
    {w \o <<HashOp(a, DefaultCacheSize)>> \o m \o <<HashOp(a, size)>> :
        w \in Warmups, m \in Between, size \in Sizes, a \in RepeatValues}

\* the family of a type registered twice, with a my_hash call on an instance
\* of it after the second registration and possibly one between the two
ReRegisterValues == {ObjBase, VTuple(<<ObjBase, VInt(1)>>), VList(<<ObjBase>>)}

ReRegisterPlans ==
    UNION {{<<RegisterOp("Base", h1)>> \o m \o <<RegisterOp("Base", h2), HashOp(v, size)>> :
               h1 \in Handlers, h2 \in Handlers, size \in Sizes,
               m \in {<<>>, <<HashOp(v, DefaultCacheSize)>>}} : v \in ReRegisterValues}

\* the family of single calls on values that contain themselves: through a
\* list, through a dict, through a tuple inside either, and through both
CyclicValues ==
    {VList(<<SelfRef>>), VList(<<VInt(1), SelfRef>>),
     VTuple(<<VList(<<SelfRef>>)>>),
     VDict(<<<<VStr(<<97>>), SelfRef>>>>),
     VDict(<<<<VStr(<<97>>), VTuple(<<SelfRef>>)>>>>),
     VTuple(<<VDict(<<<<VStr(<<97>>), SelfRef>>>>), VInt(1)>>),
     VDict(<<<<VStr(<<97>>), VList(<<SelfRef>>)>>>>)}

CyclicPlans == {<<HashOp(v, size)>> : v \in CyclicValues, size \in Sizes}

\* the family of a call on an instance after up to MaxResolveRegs registrations
\* of its ancestors' types, in every order and with repetitions
ResolveOps == {RegisterOp(t, h) : t \in {"Base", "Derived"}, h \in Handlers}

ResolveValues == {ObjLeaf, ObjDerived, ObjOther}

ResolutionPlans ==
    {r \o <<HashOp(v, DefaultCacheSize)>> :
        r \in SeqsUpTo(ResolveOps, MaxResolveRegs), v \in ResolveValues}

\* the family of two calls on containers of different kinds with the same
\* children, and of a call on an instance and one on a scalar or a container
KindItems == {<<>>, <<VInt(1)>>, <<VInt(1), VInt(12)>>}

KindValues(items) ==
    {VList(items), VTuple(items), VSet(items), VFrozenSet(items),
     VDict(IF Len(items) = 2 THEN <<<<items[1], items[2]>>>> ELSE <<>>)}

KindPlans ==
    UNION {{<<HashOp(ab[1], DefaultCacheSize), HashOp(ab[2], DefaultCacheSize)>> :
               ab \in {p \in KindValues(items) \X KindValues(items) : p[1] # p[2]}} :
           items \in KindItems}
    \cup {<<RegisterOp("Base", "hA"), HashOp(ObjBase, DefaultCacheSize),
            HashOp(b, DefaultCacheSize)>> :
              b \in {VBytes(<<97>>), VStr(<<97>>), VList(<<>>), VTuple(<<VInt(1)>>)}}

Plans ==
    SinglePlans \cup PairPlans \cup RepeatPlans \cup ReRegisterPlans \cup CyclicPlans
    \cup ResolutionPlans \cup KindPlans

Init ==
    /\ registry = <<>>
    /\ cache = EmptyCache
    /\ calls = <<>>
    /\ plan \in Plans
    /\ pos = 1
    /\ results = <<>>
    /\ invoked = <<>>
    /\ lookup = NoLookup

Spec == Init /\ [][Next]_vars

TypeOK ==
    /\ pos \in 1..(Len(plan) + 1)
    /\ Len(results) <= Len(plan)
    /\ Len(calls) <= RecLimit

----------------------------------------------------------------------------
(* Two threads on the registry: one inside get_handler, one registering *)

\* most registrations present when the lookup starts
MaxRegs == 2
\* most registrations the registering thread makes
MaxThreadRegs == 2

ThreadTypes == {"Base", "Derived", "Other"}
ThreadHandlers == {"hA", "hB"}
ThreadObjects == {ObjBase, ObjDerived, ObjOther, ObjProto}

\* the registries reached by at most n registrations
RECURSIVE RegistriesUpTo(_)
RegistriesUpTo(n) ==
    IF n = 0 THEN {<<>>}
    ELSE LET prev == RegistriesUpTo(n - 1) IN
         prev \cup {RegisterIn(r, t, h) : r \in prev, t \in ThreadTypes, h \in ThreadHandlers}

ThreadPlans ==
    SeqsUpTo({RegisterOp(t, h) : t \in ThreadTypes, h \in ThreadHandlers}, MaxThreadRegs)
    \ {<<>>}

InitThreads ==
    /\ registry \in RegistriesUpTo(MaxRegs)
    /\ cache = EmptyCache
    /\ calls = <<>>
    /\ plan \in ThreadPlans
    /\ pos = 1
    /\ results = <<>>
    /\ invoked = <<>>
    /\ lookup \in {[pc |-> "protocol", obj |-> o, seen |-> {registry}] : o \in ThreadObjects}

\* `return h` / `return None` of get_handler
LookupReturn(h) ==
    /\ lookup' = [pc |-> "done", obj |-> lookup.obj, seen |-> lookup.seen]
    /\ results' = Append(results, [op |-> "lookup", status |-> "ok", handler |-> h])

\* get_handler, lines 33-34: the protocol check
LookupProtocol ==
    /\ lookup.pc = "protocol"
    /\ IF HasCapability(lookup.obj) THEN LookupReturn("proto")
       ELSE /\ lookup' = [lookup EXCEPT !.pc = "exact"]
            /\ UNCHANGED results
    /\ UNCHANGED <<registry, cache, calls, plan, pos, invoked>>

\* get_handler, lines 37-39: the lookup of the exact type
LookupExact ==
    /\ lookup.pc = "exact"
    /\ IF RegIndex(registry, lookup.obj.type) # 0
       THEN LookupReturn(registry[RegIndex(registry, lookup.obj.type)][2])
       ELSE /\ lookup' = [lookup EXCEPT !.pc = "iter"]
            /\ UNCHANGED results
    /\ UNCHANGED <<registry, cache, calls, plan, pos, invoked>>

\* get_handler, line 42: self._handlers.items() starts to be iterated; the
\* iterator remembers the number of entries of the dict
LookupScanBegin ==
    /\ lookup.pc = "iter"
    /\ lookup' = [pc |-> "scan", obj |-> lookup.obj, seen |-> lookup.seen,
                  used |-> Len(registry), idx |-> 0]
    /\ UNCHANGED <<registry, cache, calls, plan, pos, results, invoked>>

\* get_handler, lines 42-46: the iterator is advanced (it raises RuntimeError
\* when the dict has another number of entries than when it was made), and
\* the item it gives is tested with isinstance
LookupScanNext ==
    /\ lookup.pc = "scan"
    /\ IF Len(registry) # lookup.used
       THEN /\ lookup' = [pc |-> "raised", obj |-> lookup.obj, seen |-> lookup.seen]
            /\ results' = Append(results, [op |-> "lookup", status |-> "error",
                                            handler |-> "RuntimeError"])
       ELSE IF lookup.idx = Len(registry) THEN LookupReturn("nohandler")
       ELSE IF registry[lookup.idx + 1][1] \in Mro(lookup.obj.type)
       THEN LookupReturn(registry[lookup.idx + 1][2])
       ELSE /\ lookup' = [lookup EXCEPT !.idx = @ + 1]
            /\ UNCHANGED results
    /\ UNCHANGED <<registry, cache, calls, plan, pos, invoked>>

\* the other thread: TypeRegistry.register, line 28
ThreadRegister ==
    /\ pos <= Len(plan)
    /\ registry' = RegisterIn(registry, plan[pos].type, plan[pos].handler)
    /\ pos' = pos + 1
    /\ lookup' = IF lookup.pc \in {"done", "raised"} THEN lookup
                 ELSE [lookup EXCEPT !.seen = @ \cup {registry'}]
    /\ UNCHANGED <<cache, calls, plan, results, invoked>>

NextThreads ==
    \/ LookupProtocol
    \/ LookupExact
    \/ LookupScanBegin
    \/ LookupScanNext
    \/ ThreadRegister

SpecThreads == InitThreads /\ [][NextThreads]_vars

----------------------------------------------------------------------------
(* Properties *)

\* the positions of the plan whose my_hash call has finished; results[i] is
\* what plan[i] gave
HashIdx == {i \in 1..Len(results) : plan[i].op = "hash"}

\* the last finished my_hash call, 0 if there is none
LastHash == IF HashIdx = {} THEN 0 ELSE CHOOSE i \in HashIdx : \A j \in HashIdx : j <= i

SameOutcome(i, j) ==
    /\ results[i].status = results[j].status
    /\ results[i].digest = results[j].digest

RECURSIVE Descendants(_)
\* the value and every value inside it, at any depth
Descendants(v) ==
    {v} \cup
    (IF v.kind \in {"list", "tuple", "set", "frozenset"}
     THEN UNION {Descendants(v.items[i]) : i \in 1..Len(v.items)}
     ELSE IF v.kind = "dict"
     THEN UNION {Descendants(v.items[i][1]) \cup Descendants(v.items[i][2]) :
                    i \in 1..Len(v.items)}
     ELSE {})

\* an instance of a class that is neither a primitive nor a container
IsInstance(v) == v.kind = "obj"

\* v has neither __hash_bytes__ nor a handler registered for one of its classes
Unsupported(v, reg) == IsInstance(v) /\ GetHandler(reg, v) = "nohandler"

\* v is resolved by a handler that returns bytes
Resolved(v, reg) ==
    /\ IsInstance(v)
    /\ GetHandler(reg, v) # "nohandler"
    /\ RunHandler(GetHandler(reg, v), v).ok

\* every value inside v is a primitive, a container or a resolved instance
Supported(v, reg) == \A d \in Descendants(v) : IsInstance(d) => Resolved(d, reg)

\* a class of v has a registered handler
HasRegistered(reg, v) == \E t \in Mro(v.type) : RegIndex(reg, t) # 0

\* C1: the digest of a value depends on the value and on the registry contents
\* only: two my_hash calls on the same value under the same registry, whatever
\* was hashed before, by whichever Hasher and in whichever process, give the
\* same digest.
DigestDependsOnValueAndRegistryOnly ==
    \A i, j \in HashIdx :
        (plan[i].v = plan[j].v /\ results[i].reg = results[j].reg) => SameOutcome(i, j)

\* C2: a list and every reordering of it, at the root or of a list nested in
\* it, have the same digest.
ListOrderIndependent ==
    \A i, j \in HashIdx :
        (/\ results[i].reg = results[j].reg
         /\ plan[j].v # plan[i].v
         /\ plan[j].v \in Variants(plan[i].v, {"list"})) => SameOutcome(i, j)

\* C3: two dicts holding the same (key, value) pairs inserted in different
\* orders have the same digest.
DictInsertionOrderIndependent ==
    \A i, j \in HashIdx :
        (/\ results[i].reg = results[j].reg
         /\ plan[j].v # plan[i].v
         /\ plan[j].v \in Variants(plan[i].v, {"dict"})) => SameOutcome(i, j)

RECURSIVE TopComma(_, _, _)
\* the position of the first comma of s that lies outside every digest, looking
\* from position i at nesting depth d; 0 if there is none
TopComma(s, i, d) ==
    IF i > Len(s) THEN 0
    ELSE IF s[i] = 256 THEN TopComma(s, i + 1, d + 1)
    ELSE IF s[i] = 257 THEN TopComma(s, i + 1, d - 1)
    ELSE IF s[i] = 44 /\ d = 0 THEN i
    ELSE TopComma(s, i + 1, d)

\* the bytes that were digested into the digest dg of a tuple, after the prefix
TupleBody(dg) == SubSeq(dg, 2 + Len(TYPE_TUPLE), Len(dg) - 1)

\* the two child digests joined in the digest dg of a two-item tuple
TupleChildren(dg) ==
    LET body == TupleBody(dg)
        c == TopComma(body, 1, 0)
    IN <<SubSeq(body, 1, c - 1), SubSeq(body, c + 1, Len(body))>>

\* a tuple of two items whose children got different digests, and the same
\* tuple with the two items swapped, have different digests
TupleSwapChangesDigest ==
    \A i, j \in HashIdx :
        (/\ plan[i].v.kind = "tuple" /\ plan[j].v.kind = "tuple"
         /\ Len(plan[i].v.items) = 2
         /\ plan[j].v.items = <<plan[i].v.items[2], plan[i].v.items[1]>>
         /\ results[i].status = "ok" /\ results[j].status = "ok"
         /\ TupleChildren(results[i].digest)[1] # TupleChildren(results[i].digest)[2])
        => results[i].digest # results[j].digest

\* my_hash of an unchanged tuple is stable
TupleStable ==
    \A i, j \in HashIdx :
        (/\ plan[i].v.kind = "tuple"
         /\ plan[i].v = plan[j].v
         /\ results[i].reg = results[j].reg) => SameOutcome(i, j)

\* C4: tuple digests are order-sensitive (swapping two children with different
\* digests changes the digest) and my_hash of an unchanged tuple is stable.
TupleOrderSensitiveAndStable == TupleSwapChangesDigest /\ TupleStable

\* C5: the digest of a set or a frozenset does not depend on the order in which
\* the set is iterated, at the root or nested.
SetOrderIndependent ==
    \A i, j \in HashIdx :
        (/\ results[i].reg = results[j].reg
         /\ plan[j].v # plan[i].v
         /\ plan[j].v \in Variants(plan[i].v, {"set", "frozenset"})) => SameOutcome(i, j)

\* C6: my_hash of an acyclic value built from supported kinds returns a digest,
\* never the empty placeholder of the root slot and never an error.
SupportedValueGetsDigest ==
    \A i \in HashIdx :
        (Supported(plan[i].v, results[i].reg) /\ SelfRef \notin Descendants(plan[i].v))
        => /\ results[i].status = "ok"
           /\ IsDigest(results[i].digest)
           /\ results[i].digest # EMPTY

\* the digest of an instance from its own __hash_bytes__
CapabilityDigest(v) == Md5(B_CUSTOM \o RunHandler("proto", v).bytes)

\* C7 as stated: every value that exposes __hash_bytes__ and has a handler
\* registered for one of its classes gets the digest of its __hash_bytes__.
EveryCapabilityBeatsRegistry ==
    \A i \in HashIdx :
        (/\ HasCapability(plan[i].v)
         /\ plan[i].v.proto = "bytes"
         /\ HasRegistered(results[i].reg, plan[i].v))
        => /\ results[i].status = "ok"
           /\ results[i].digest = CapabilityDigest(plan[i].v)

\* C7: an instance that is neither a primitive nor a container, exposes
\* __hash_bytes__ and has a handler registered for one of its classes gets the
\* digest of its __hash_bytes__, and no registered handler is invoked on a value
\* that exposes __hash_bytes__.
CapabilityBeatsRegistry ==
    /\ \A i \in HashIdx :
          (/\ IsInstance(plan[i].v)
           /\ plan[i].v.proto = "bytes"
           /\ HasRegistered(results[i].reg, plan[i].v))
          => /\ results[i].status = "ok"
             /\ results[i].digest = CapabilityDigest(plan[i].v)
    /\ \A k \in 1..Len(invoked) :
          HasCapability(invoked[k].obj) => invoked[k].handler = "proto"

\* a registered instance with __hash_bytes__ was hashed through __hash_bytes__
CapabilityBeatsRegistryReached ==
    /\ Idle
    /\ LastHash # 0
    /\ plan[LastHash].v = ObjProtoDerived
    /\ HasRegistered(results[LastHash].reg, ObjProtoDerived)
    /\ results[LastHash].digest = CapabilityDigest(ObjProtoDerived)
    /\ invoked = <<[handler |-> "proto", obj |-> ObjProtoDerived]>>

\* C8 as stated: every value that exposes a __hash_bytes__ returning bytes,
\* whatever its runtime type, gets the digest of its __hash_bytes__.
EveryCapabilityHonored ==
    \A i \in HashIdx :
        (HasCapability(plan[i].v) /\ plan[i].v.proto = "bytes")
        => results[i].digest = CapabilityDigest(plan[i].v)

\* C8: an instance that is neither a primitive nor a container and exposes a
\* __hash_bytes__ returning bytes gets the digest of its __hash_bytes__, with
\* or without a registration.
CapabilityHonored ==
    \A i \in HashIdx :
        (IsInstance(plan[i].v) /\ plan[i].v.proto = "bytes")
        => results[i].digest = CapabilityDigest(plan[i].v)

\* an unregistered instance with __hash_bytes__ was hashed
CapabilityHonoredReached ==
    /\ Idle
    /\ LastHash # 0
    /\ plan[LastHash].v = ObjProto
    /\ results[LastHash].reg = <<>>
    /\ results[LastHash].status = "ok"
    /\ results[LastHash].digest = CapabilityDigest(ObjProto)

\* C9: a value with an unsupported value inside it, at any depth, gives no
\* digest: my_hash raises a TypeError, and the unsupported-type error names the
\* class of an unsupported value.
UnsupportedAlwaysTypeError ==
    \A i \in HashIdx :
        LET U == {d \in Descendants(plan[i].v) : Unsupported(d, results[i].reg)} IN
        U # {} => /\ results[i].status = "error"
                  /\ results[i].digest = EMPTY
                  /\ results[i].err.kind \in {"unsupported", "handler"}
                  /\ results[i].err.kind = "unsupported"
                        => results[i].err.etype \in {d.type : d \in U}

\* C10: a handler or __hash_bytes__ that raises ends my_hash at once: it is the
\* last and the only invocation of that handler on that value, and the call
\* gives no digest but an error naming the class of the value and carrying the
\* failure the handler raised.
HandlerFailureSurfaced ==
    \A k \in 1..Len(invoked) :
        LET r == RunHandler(invoked[k].handler, invoked[k].obj) IN
        ~r.ok => /\ k = Len(invoked)
                 /\ Cardinality({j \in 1..Len(invoked) : invoked[j] = invoked[k]}) = 1
                 /\ Idle
                 /\ LastHash # 0
                 /\ results[LastHash].status = "error"
                 /\ results[LastHash].digest = EMPTY
                 /\ results[LastHash].err =
                        [kind |-> "handler", etype |-> invoked[k].obj.type, cause |-> r.exc]

\* a registered handler raised on an instance nested in the hashed value
HandlerFailureReached ==
    /\ Idle
    /\ LastHash # 0
    /\ results[LastHash].status = "error"
    /\ results[LastHash].err.kind = "handler"
    /\ invoked # <<>>
    /\ invoked[Len(invoked)].handler = "hRaise"
    /\ invoked[Len(invoked)].obj # plan[LastHash].v

\* the registrations of type t made before operation i of the plan, in the
\* process operation i runs in
RegsBefore(i, t) ==
    {j \in 1..(i - 1) :
        /\ plan[j].op = "register"
        /\ plan[j].type = t
        /\ \A k \in j..i : plan[k].op # "process"}

\* the handler of the latest of them
LastRegistered(i, t) ==
    LET js == RegsBefore(i, t) IN
    plan[CHOOSE j \in js : \A k \in js : k <= j].handler

\* what my_hash gives for an instance resolved by handler h alone
HandlerOutcome(h, v) ==
    LET r == RunHandler(h, v) IN
    IF r.ok THEN [status |-> "ok", digest |-> Md5(B_CUSTOM \o r.bytes), err |-> [kind |-> "none"]]
    ELSE [status |-> "error", digest |-> EMPTY,
          err |-> [kind |-> "handler", etype |-> v.type, cause |-> r.exc]]

PrefixOf(kind) ==
    CASE kind = "list" -> TYPE_LIST
      [] kind = "tuple" -> TYPE_TUPLE
      [] kind = "dict" -> TYPE_DICT
      [] kind = "set" -> TYPE_SET
      [] kind = "frozenset" -> TYPE_FROZENSET

IsContainer(v) == v.kind \in ContainerKinds
IsEmptyContainer(v) == IsContainer(v) /\ Len(v.items) = 0

\* the values directly inside a container: items, or keys and values
Children(v) ==
    IF v.kind = "dict"
    THEN {v.items[k][1] : k \in 1..Len(v.items)} \cup {v.items[k][2] : k \in 1..Len(v.items)}
    ELSE {v.items[k] : k \in 1..Len(v.items)}

NumChildren(v) == IF v.kind = "dict" THEN 2 * Len(v.items) ELSE Len(v.items)

RECURSIVE Groups(_, _, _, _)
\* the digests that lie side by side in the bytes s: read from position i at
\* nesting depth d, the current digest having started at position start
Groups(s, i, d, start) ==
    IF i > Len(s) THEN <<>>
    ELSE IF s[i] = 256 THEN Groups(s, i + 1, d + 1, IF d = 0 THEN i ELSE start)
    ELSE IF s[i] = 257
    THEN (IF d = 1 THEN <<SubSeq(s, start, i)>> ELSE <<>>) \o Groups(s, i + 1, d - 1, start)
    ELSE Groups(s, i + 1, d, start)

\* the child digests that were digested into the digest dg of a container
ChildDigests(dg) == Groups(SubSeq(dg, 2, Len(dg) - 1), 1, 0, 0)

\* C12: an empty container hashes to the digest of its bare prefix, at the root
\* and as a child of another container, and the five digests are pairwise
\* distinct.
EmptyContainerIsBarePrefix ==
    /\ \A k1, k2 \in ContainerKinds : k1 # k2 => Md5(PrefixOf(k1)) # Md5(PrefixOf(k2))
    /\ \A i \in HashIdx :
          LET v == plan[i].v
              dg == results[i].digest IN
          (results[i].status = "ok" /\ IsContainer(v))
          => /\ IsEmptyContainer(v) => dg = Md5(PrefixOf(v.kind))
             /\ Len(ChildDigests(dg)) = NumChildren(v)
             /\ \A c \in Children(v) :
                   IsEmptyContainer(c)
                   => \E k \in 1..Len(ChildDigests(dg)) :
                         ChildDigests(dg)[k] = Md5(PrefixOf(c.kind))

\* an empty tuple was hashed on the work-list as the first child of a tuple
EmptyContainerReached ==
    /\ Idle
    /\ LastHash # 0
    /\ plan[LastHash].v = VTuple(<<VTuple(<<>>), VInt(1)>>)
    /\ results[LastHash].digest =
          Md5(TYPE_TUPLE \o Md5(TYPE_TUPLE) \o B_COMMA \o Md5(TYPE_INT \o Digits(1)))

\* the encoding domain of a scalar: int and float share one
Domain(v) == IF v.kind \in {"int", "float"} THEN "number" ELSE v.kind

\* the bytes that were digested into the digest dg
Fed(dg) == SubSeq(dg, 2, Len(dg) - 1)

\* C13: two scalars of different encoding domains (None, number, bool, str,
\* bytes), or two unequal scalars of one domain, are digested from different
\* bytes and get different digests.
ScalarDomainsNeverCollide ==
    \A i, j \in HashIdx :
        LET v == plan[i].v
            w == plan[j].v IN
        (/\ v.kind \in ScalarKinds /\ w.kind \in ScalarKinds
         /\ Domain(v) # Domain(w) \/ ~PyEq(v, w))
        => /\ results[i].status = "ok" /\ results[j].status = "ok"
           /\ Fed(results[i].digest) # Fed(results[j].digest)
           /\ results[i].digest # results[j].digest

\* True and then the integer 1 were hashed in one process
ScalarDomainsReached ==
    /\ Idle
    /\ Len(results) >= 2
    /\ plan[1] = HashOp(VBool(TRUE), DefaultCacheSize)
    /\ plan[2] = HashOp(VInt(1), DefaultCacheSize)
    /\ results[1].digest = Md5(TYPE_INT \o PackBool(TRUE))
    /\ results[2].digest = Md5(TYPE_INT \o Digits(1))

\* every value inside v is of one of the kinds
BuiltFrom(v, kinds) == \A d \in Descendants(v) : d.kind \in kinds

\* my_hash call i gave what the reference gives for its value
AgreesWithOriginal(i) ==
    LET ref == OriginalMyHash(plan[i].v, 1) IN
    ref.status = "ok" => results[i].status = "ok" /\ results[i].digest = ref.digest

\* C14: on every value built from str, non-boolean int, float, None and dicts
\* of these, my_hash gives the digest the reference implementation gives.
AgreesWithOriginalOnDicts ==
    \A i \in HashIdx :
        BuiltFrom(plan[i].v, {"str", "int", "float", "none", "dict"})
        => AgreesWithOriginal(i)

\* C15: on every list, and on every structure mixing lists, dicts, booleans and
\* the other scalars, my_hash gives the digest the reference implementation
\* gives.
AgreesWithOriginalOnLists ==
    \A i \in HashIdx :
        (/\ BuiltFrom(plan[i].v, {"str", "int", "float", "none", "bool", "list", "dict"})
         /\ \E d \in Descendants(plan[i].v) : d.kind \in {"list", "bool"})
        => AgreesWithOriginal(i)

\* C16: a get_handler call that runs while another thread registers types
\* does not raise, and returns the handler of the registry as it was before or
\* after one of the registrations.
ConcurrentLookupTolerated ==
    /\ lookup.pc # "raised"
    /\ lookup.pc = "done"
         => \E r \in lookup.seen : results[Len(results)].handler = GetHandler(r, lookup.obj)

\* C17: while a my_hash call of a Hasher made with cache_size 0 runs, no entry
\* is added to a cache and none is moved or evicted.
ZeroCacheSizeLeavesCachesAlone ==
    [][(calls # <<>> /\ calls[1].self = 0) => cache' = cache]_vars

\* the frame the while loop of the innermost call pops next is a Finalize frame
AtFinalize ==
    /\ ~Idle
    /\ Top.pc = "loop"
    /\ Top.stack # <<>>
    /\ Top.stack[Len(Top.stack)].post

\* when a Finalize frame is about to be popped, every slot of its child array
\* holds a digest
FinalizeAfterChildren ==
    AtFinalize =>
        LET arr == Top.arrays[Top.stack[Len(Top.stack)].child] IN
        \A k \in 1..Len(arr) : IsDigest(arr[k])

\* in every array of every active call the written slots are the leftmost ones
SlotsFilledLeftToRight ==
    \A c \in 1..Len(calls) :
        \A a \in 1..Len(calls[c].arrays) :
            \A k \in 2..Len(calls[c].arrays[a]) :
                calls[c].arrays[a][k] # EMPTY => calls[c].arrays[a][k - 1] # EMPTY

\* a step that leaves the call stack as deep as it was leaves every written
\* slot of every array as it was
SlotsWrittenOnce ==
    Len(calls') = Len(calls) =>
        \A c \in 1..Len(calls) :
            \A a \in 1..Len(calls[c].arrays) :
                \A k \in 1..Len(calls[c].arrays[a]) :
                    calls[c].arrays[a][k] # EMPTY
                    => calls'[c].arrays[a][k] = calls[c].arrays[a][k]

\* C18: the Finalize frame of a tuple or dict is popped only after every slot
\* of its child array holds a digest, the slots are written left to right (for
\* a dict key then value, entries in sorted order), and a written slot is never
\* written again.
WorkListOrdering ==
    /\ [](FinalizeAfterChildren /\ SlotsFilledLeftToRight)
    /\ [][SlotsWrittenOnce]_vars

\* the Finalize frame of a dict of two entries is about to be popped, its four
\* child slots written
WorkListOrderingReached ==
    /\ AtFinalize
    /\ Top.stack[Len(Top.stack)].obj.kind = "dict"
    /\ Len(Top.arrays[Top.stack[Len(Top.stack)].child]) = 4
    /\ \A k \in 1..4 : IsDigest(Top.arrays[Top.stack[Len(Top.stack)].child][k])

\* C19: the sort key str(key) is a total order on the keys of every dict that
\* was hashed: two distinct keys of one dict have different string forms, and
\* the sorted entries are the same whatever the insertion order.
SortKeyTotalOrder ==
    \A i \in HashIdx :
        \A d \in Descendants(plan[i].v) :
            d.kind = "dict" =>
                /\ \A a, b \in 1..Len(d.items) :
                        a # b => PyStr(d.items[a][1]) # PyStr(d.items[b][1])
                /\ \A p \in PermsSeq(d.items) : SortedItems(p) = SortedItems(d.items)

\* a str, int or float that goes through the cached branch of _hash_primitive
IsCachedScalar(v) == v.kind \in {"str", "int", "float"} /\ ~HasCapability(v)

\* md5(prefix + encoded string form of v), for a str, int or float
OwnPayloadDigest(v) ==
    IF v.kind = "str" THEN Md5(TYPE_STR \o v.s)
    ELSE IF v.kind = "int" THEN Md5(TYPE_INT \o PyStr(v))
    ELSE Md5(TYPE_FLOAT \o PyStr(v))

\* C20: when my_hash(w) is called after my_hash(v), v and w of one cached kind
\* being equal as cache keys but having different string forms, my_hash(w)
\* returns md5(prefix + encoded string form of w).
CacheHitServesOwnPayload ==
    \A i, j \in HashIdx :
        LET v == plan[j].v
            w == plan[i].v IN
        (/\ j < i
         /\ IsCachedScalar(v) /\ IsCachedScalar(w)
         /\ v.kind = w.kind
         /\ PyEq(v, w)
         /\ PyStr(v) # PyStr(w))
        => /\ results[i].status = "ok"
           /\ results[i].digest = OwnPayloadDigest(w)

RECURSIVE Levels(_, _)
\* the numbers of list, set and frozenset levels that enclose the occurrences
\* of the value x inside v
Levels(v, x) ==
    (IF v = x THEN {0} ELSE {})
    \cup (IF v.kind \in {"list", "set", "frozenset"}
          THEN {n + 1 : n \in UNION {Levels(v.items[i], x) : i \in 1..Len(v.items)}}
          ELSE IF v.kind = "tuple"
          THEN UNION {Levels(v.items[i], x) : i \in 1..Len(v.items)}
          ELSE IF v.kind = "dict"
          THEN UNION {Levels(v.items[i][1], x) \cup Levels(v.items[i][2], x) :
                         i \in 1..Len(v.items)}
          ELSE {})

RECURSIVE Sums(_, _)
\* the sums of at most k members of the set of numbers L
Sums(L, k) ==
    IF k = 0 THEN {0}
    ELSE Sums(L, k - 1) \cup {t + l : t \in Sums(L, k - 1), l \in L}

\* the numbers of list, set and frozenset levels that enclose the occurrences
\* of x inside the root, those reached through its references back to itself
\* included
LevelsInRoot(x) ==
    {r + b : r \in Sums(Levels(Root, SelfRef), RecLimit), b \in Levels(Root, x)}

\* the values the innermost activation is about to process: its argument on the
\* fast path, the object of the frame it pops next, the list or set it iterates
ProcessedByTop ==
    IF Top.pc = "fast" THEN {Top.obj}
    ELSE IF Top.pc = "iter" THEN {Top.it.obj}
    ELSE {Top.stack[k].obj : k \in {Len(Top.stack)} \ {0}}

\* the innermost activation is about to hash the only element of its argument
\* on the fast path (hasher.py:157-165)
FastElement ==
    /\ ~Idle
    /\ Top.pc = "fast"
    /\ ~HashPrimitive(cache, Top.obj).prim
    /\ Top.obj.kind \in {"list", "tuple"}
    /\ Len(Top.obj.items) = 1
    /\ HashPrimitive(cache, Top.obj.items[1]).prim

\* the value has no list, set or frozenset inside it or as itself
NoSequenceOrSet(v) == \A d \in Descendants(v) : d.kind \notin {"list", "set", "frozenset"}

Cyclic(v) == SelfRef \in Descendants(v)

\* every path from the value back to itself passes through a list
CycleThroughList(v) == Cyclic(v) /\ 0 \notin Levels(v, SelfRef)

\* a path from the value back to itself passes through dicts and tuples only
CycleThroughDictsOnly(v) == Cyclic(v) /\ 0 \in Levels(v, SelfRef)

\* a finished my_hash call on a cyclic value gave no digest: it ended in the
\* interpreter's recursion error when the cycle passes through a list, in the
\* exhaustion of memory by the work-list when it passes through dicts and
\* tuples only, and in no other error
CyclicGetsNoDigest ==
    \A i \in HashIdx :
        Cyclic(plan[i].v) =>
            /\ results[i].status = "error"
            /\ results[i].digest = EMPTY
            /\ CycleThroughList(plan[i].v) => results[i].err.kind = "recursion"
            /\ CycleThroughDictsOnly(plan[i].v) => results[i].err.kind = "memory"

\* the step that ends my_hash on a cyclic value is taken with the native call
\* depth at its limit, or with one activation whose work-list is at the limit
\* of the memory
CyclicEndsByExhaustion ==
    (~Idle /\ Cyclic(Root) /\ Len(results') > Len(results)) =>
        /\ CycleThroughList(Root) => Len(calls) = RecLimit
        /\ CycleThroughDictsOnly(Root) =>
              Len(calls) = 1 /\ Len(Top.stack) + 2 > MaxWork

\* in a my_hash call on a value whose cycle passes through dicts and tuples
\* only, a step that pops a reference back to the root leaves the work-list
\* longer than it was
WorkListGrowsAroundCycle ==
    (/\ ~Idle /\ CycleThroughDictsOnly(Root)
     /\ Len(calls') = 1 /\ Len(calls) = 1
     /\ Top.pc = "loop" /\ Top.stack # <<>>
     /\ Top.stack[Len(Top.stack)].obj = SelfRef)
    => Len(calls'[1].stack) > Len(Top.stack)

\* C22: a value that contains itself is never given a digest: a cycle through
\* a list ends in the recursion error at the native call-depth limit, a cycle
\* through dicts and tuples only makes the work-list grow each time around
\* until memory is exhausted, and no other error is raised for a cycle.
CyclicNeverDigested ==
    /\ []CyclicGetsNoDigest
    /\ [][CyclicEndsByExhaustion /\ WorkListGrowsAroundCycle]_vars

\* my_hash on d = {'a': d} has ended in MemoryError
CyclicNeverDigestedReached ==
    /\ plan = <<HashOp(VDict(<<<<VStr(<<97>>), SelfRef>>>>), DefaultCacheSize)>>
    /\ Len(results) = 1
    /\ results[1].err.kind = "memory"

\* the classes of v registered before operation i of the plan
RegisteredClasses(i, v) == {t \in Mro(v.type) : RegsBefore(i, t) # {}}

\* the position in the plan of the first registration of type t before i
FirstRegistration(i, t) ==
    CHOOSE j \in RegsBefore(i, t) : \A k \in RegsBefore(i, t) : j <= k

\* the handler the resolution order gives an instance v without __hash_bytes__
\* at operation i: the one registered last for its exact class; otherwise the
\* one registered last for the class of v that was registered first; otherwise
\* none
ExpectedHandler(i, v) ==
    IF RegsBefore(i, v.type) # {} THEN LastRegistered(i, v.type)
    ELSE IF RegisteredClasses(i, v) # {}
    THEN LastRegistered(i, CHOOSE t \in RegisteredClasses(i, v) :
                              \A u \in RegisteredClasses(i, v) :
                                  FirstRegistration(i, t) <= FirstRegistration(i, u))
    ELSE "nohandler"

\* C23: my_hash of an instance without __hash_bytes__ is decided by the handler
\* registered for its exact class if there is one, otherwise by the handler of
\* the earliest-registered class it is an instance of (a class registered again
\* keeps its place), and without either the call fails as unsupported.
HandlerResolutionOrder ==
    \A i \in HashIdx :
        LET v == plan[i].v
            h == ExpectedHandler(i, v) IN
        (IsInstance(v) /\ v.proto = "none") =>
            IF h = "nohandler"
            THEN /\ results[i].status = "error"
                 /\ results[i].err = [kind |-> "unsupported", etype |-> v.type]
                 /\ (Idle /\ i = LastHash) => invoked = <<>>
            ELSE /\ results[i].status = HandlerOutcome(h, v).status
                 /\ results[i].digest = HandlerOutcome(h, v).digest
                 /\ results[i].err = HandlerOutcome(h, v).err
                 /\ (Idle /\ i = LastHash) => invoked = <<[handler |-> h, obj |-> v]>>

\* Base, then Derived, then Base again were registered, and my_hash of a Leaf
\* instance ran the handler Base was given last
HandlerResolutionOrderReached ==
    /\ Idle
    /\ plan = <<RegisterOp("Base", "hA"), RegisterOp("Derived", "hB"),
                RegisterOp("Base", "hRaise"), HashOp(ObjLeaf, DefaultCacheSize)>>
    /\ Len(results) = 4
    /\ results[4].err.kind = "handler"
    /\ invoked = <<[handler |-> "hRaise", obj |-> ObjLeaf]>>

\* the digests a scalar or an instance can get: a str, int or float the digest
\* of its own string form or of the string form of an equal value of its kind
\* (the cache decides which), an instance some digest
LeafDigestOk(v, dg) ==
    CASE v.kind = "none" -> dg = Md5(TYPE_NONE)
      [] v.kind = "bool" -> dg = Md5(TYPE_INT \o PackBool(v.b))
      [] v.kind = "bytes" -> dg = Md5(TYPE_BYTES \o v.s)
      [] v.kind \in {"str", "int"} -> dg = OwnPayloadDigest(v)
      [] v.kind = "float" ->
            \E neg \in BOOLEAN :
                /\ PyEq(v, [v EXCEPT !.neg = neg])
                /\ dg = OwnPayloadDigest([v EXCEPT !.neg = neg])
      [] OTHER -> IsDigest(dg)

RECURSIVE FollowsRules(_, _)
\* dg is the digest the container rules give v from digests of its children:
\* a list "list" and the child digests in descending order, comma-joined, one
\* per item; a tuple in item order; a set in ascending order; a dict in pairs
FollowsRules(v, dg) ==
    LET cd == ChildDigests(dg)
        n == Len(cd)
        matched(items) ==
            \E p \in Permutations(1..n) : \A k \in 1..n : FollowsRules(items[k], cd[p[k]])
    IN
    IF v.kind = "list"
    THEN /\ dg = Md5(TYPE_LIST \o JoinComma(SortedDesc(cd)))
         /\ n = Len(v.items)
         /\ matched(v.items)
    ELSE IF v.kind = "tuple"
    THEN /\ dg = Md5(TYPE_TUPLE \o JoinComma(cd))
         /\ n = Len(v.items)
         /\ \A k \in 1..n : FollowsRules(v.items[k], cd[k])
    ELSE IF v.kind \in {"set", "frozenset"}
    THEN /\ dg = Md5(PrefixOf(v.kind) \o JoinComma(SortedAsc(cd)))
         /\ n = Len(v.items)
         /\ matched(v.items)
    ELSE IF v.kind = "dict"
    THEN /\ dg = Md5(TYPE_DICT \o JoinPairs(cd))
         /\ n = 2 * Len(v.items)
         /\ \E p \in Permutations(1..Len(v.items)) :
                \A k \in 1..Len(v.items) :
                    /\ FollowsRules(v.items[k][1], cd[2 * p[k] - 1])
                    /\ FollowsRules(v.items[k][2], cd[2 * p[k]])
    ELSE LeafDigestOk(v, dg)

BuiltinOnly(v) == \A d \in Descendants(v) : d.kind \notin {"obj", "cycle"}

\* C25: the registry is a fallback only: no handler and no __hash_bytes__ is
\* ever invoked on a str, int, float, bool, bytes, list, tuple, dict, set or
\* frozenset, instances of their subclasses included; a value made of these
\* alone gets the digest of the primitive and container rules, no handler is
\* invoked for it and it never ends in the errors get_handler leads to.
RegistryOnlyFallback ==
    /\ \A k \in 1..Len(invoked) : invoked[k].obj.kind = "obj"
    /\ \A i \in HashIdx :
          BuiltinOnly(plan[i].v) =>
              /\ results[i].err.kind \notin {"unsupported", "handler"}
              /\ results[i].status = "ok" => FollowsRules(plan[i].v, results[i].digest)
              /\ (Idle /\ i = LastHash) => invoked = <<>>

\* an instance of a list subclass that defines __hash_bytes__ was hashed with a
\* handler registered for its class: it got the list digest and nothing was
\* invoked
RegistryOnlyFallbackReached ==
    /\ Idle
    /\ plan = <<RegisterOp("ListSub", "hA"), HashOp(SubList, DefaultCacheSize)>>
    /\ Len(results) = 2
    /\ results[2].digest =
          Md5(TYPE_LIST \o Md5(TYPE_INT \o Digits(1)) \o B_COMMA \o Md5(TYPE_INT \o Digits(12)))
    /\ invoked = <<>>

CachedKinds == {"str", "int", "float"}

\* the entries of a cache table
Entries(tbl) == {tbl[k] : k \in 1..Len(tbl)}

\* the values the next step of the innermost activation passes to
\* _hash_primitive: its argument and, for a list or tuple of one item, that
\* item on the fast path; the object of the Compute frame it pops in the loop
HashedNow ==
    IF Idle THEN {}
    ELSE IF Top.pc = "fast"
    THEN {Top.obj} \cup (IF Top.obj.kind \in {"list", "tuple"} /\ Len(Top.obj.items) = 1
                         THEN {Top.obj.items[1]} ELSE {})
    ELSE IF Top.pc = "loop" /\ Top.stack # <<>> /\ ~Top.stack[Len(Top.stack)].post
    THEN {Deref(Top.stack[Len(Top.stack)].obj)}
    ELSE {}

\* the step is the start of a new process
StartsProcess == pos <= Len(plan) /\ plan[pos].op = "process" /\ pos' = pos + 1

\* a step of register or my_hash adds cache entries only under the str,
\* non-boolean int and float values it hashes, each in the table of its kind;
\* removes an entry only as the least recently used one of a full table that
\* gets a new entry; and leaves the caches as they are when it hashes none
CachePopulationStep ==
    ~StartsProcess =>
        /\ \A kd \in CachedKinds :
              /\ \A e \in Entries(cache'[kd]) \ Entries(cache[kd]) :
                    /\ e.key[1].kind = kd
                    /\ e.key[1] \in HashedNow
              /\ \A e \in Entries(cache[kd]) \ Entries(cache'[kd]) :
                    /\ Len(cache[kd]) = CacheCap
                    /\ e = cache[kd][1]
                    /\ Entries(cache'[kd]) \ Entries(cache[kd]) # {}
        /\ (\A x \in HashedNow : x.kind \notin CachedKinds) => cache' = cache

\* C26: my_hash adds scalar cache entries only for the str, non-boolean int and
\* float values it meets; hashing None, booleans, bytes, the containers
\* themselves and custom values leaves the caches unchanged; and an entry is
\* removed only by eviction.
CachePopulationPolicy == [][CachePopulationStep]_vars

\* True, then 1 were hashed: the int table holds the entry of 1 alone
CachePopulationReached ==
    /\ Len(results) >= 2
    /\ plan[1] = HashOp(VBool(TRUE), DefaultCacheSize)
    /\ plan[2] = HashOp(VInt(1), DefaultCacheSize)
    /\ cache.int = <<[key |-> <<VInt(1), TYPE_INT>>, val |-> Md5(TYPE_INT \o Digits(1))]>>
    /\ cache.str = <<>>
    /\ cache.float = <<>>

\* the number of scalar digests the caches hold
CachedDigests == Len(cache.str) + Len(cache.int) + Len(cache.float)

\* a step that inserts an entry into a full table drops the table's least
\* recently used entry and appends the new one
EvictsLeastRecentlyUsed ==
    \A kd \in CachedKinds :
        (Len(cache[kd]) = CacheCap /\ Entries(cache'[kd]) \ Entries(cache[kd]) # {})
        => /\ Len(cache'[kd]) = CacheCap
           /\ SubSeq(cache'[kd], 1, CacheCap - 1) = Tail(cache[kd])

\* C27: the number of cached scalar digests never exceeds the capacity of the
\* scalar cache, and inserting a new entry into a full cache evicts the least
\* recently used entry.
ScalarCacheBounded ==
    /\ [](CachedDigests <= CacheCap)
    /\ [][EvictsLeastRecentlyUsed]_vars

\* the types a registry has a handler for
RegisteredTypes(reg) == {reg[k][1] : k \in 1..Len(reg)}

\* the handler a registry has for type t
HandlerOf(reg, t) == reg[RegIndex(reg, t)][2]

\* the step is a register call
IsRegisterStep == Idle /\ pos <= Len(plan) /\ plan[pos].op = "register" /\ pos' = pos + 1

\* within a process no step removes a type from the registry; a register call
\* gives the type it names the handler it names and leaves every other type
\* with its handler and no new type; every other step, the steps of my_hash
\* among them, whether the call returns or raises, leaves the registry as it is
RegistryStep ==
    ~StartsProcess =>
        /\ RegisteredTypes(registry) \subseteq RegisteredTypes(registry')
        /\ IsRegisterStep =>
              /\ RegisteredTypes(registry') = RegisteredTypes(registry) \cup {plan[pos].type}
              /\ HandlerOf(registry', plan[pos].type) = plan[pos].handler
              /\ \A t \in RegisteredTypes(registry) \ {plan[pos].type} :
                    HandlerOf(registry', t) = HandlerOf(registry, t)
        /\ ~IsRegisterStep => registry' = registry

\* C28: the registry is append-only and untouched by hashing: the set of
\* registered types never shrinks, register changes only the entry of the type
\* it names, and my_hash leaves the registry unchanged whether it returns or
\* raises.
RegistryAppendOnly == [][RegistryStep]_vars

\* Base and Derived were registered, my_hash of an unsupported instance raised,
\* and both registrations are in place
RegistryAppendOnlyReached ==
    /\ Idle
    /\ plan = <<RegisterOp("Base", "hA"), RegisterOp("Derived", "hB"),
                HashOp(ObjOther, DefaultCacheSize)>>
    /\ Len(results) = 3
    /\ results[3].status = "error"
    /\ registry = <<<<"Base", "hA">>, <<"Derived", "hB">>>>

\* the byte string a is the beginning of the byte string b
IsPrefix(a, b) == Len(a) <= Len(b) /\ SubSeq(b, 1, Len(a)) = a

\* the kinds whose digested bytes are told apart by their prefixes; the
\* scalars are one of them
SeparatedKinds == {"list", "tuple", "dict", "set", "frozenset", "custom", "scalar"}

KindOf(v) ==
    IF v.kind \in ContainerKinds THEN v.kind
    ELSE IF v.kind = "obj" THEN "custom"
    ELSE "scalar"

\* the prefixes the digested bytes of a kind begin with
PrefixesOf(k) ==
    IF k = "scalar" THEN {TYPE_NONE, TYPE_INT, TYPE_FLOAT, TYPE_STR, TYPE_BYTES}
    ELSE IF k = "custom" THEN {B_CUSTOM}
    ELSE {PrefixOf(k)}

\* no prefix of one kind is the beginning of a prefix of another
PrefixesSeparate ==
    \A k1, k2 \in SeparatedKinds :
        k1 # k2 => \A a \in PrefixesOf(k1), b \in PrefixesOf(k2) : ~IsPrefix(a, b)

\* the bytes digested for every value that got a digest begin with a prefix of
\* its kind, and two values of different kinds were digested from different
\* bytes
DigestedBytesSeparate ==
    \A i \in HashIdx :
        results[i].status = "ok" =>
            /\ \E a \in PrefixesOf(KindOf(plan[i].v)) : IsPrefix(a, Fed(results[i].digest))
            /\ \A j \in HashIdx :
                  (results[j].status = "ok" /\ KindOf(plan[j].v) # KindOf(plan[i].v))
                  => Fed(results[j].digest) # Fed(results[i].digest)

\* every Finalize frame on a work-list is that of a tuple or of a dict, and no
\* my_hash call ended in the unknown-container error
FinalizeOnlyTupleDict ==
    /\ \A c \in 1..Len(calls) :
          \A k \in 1..Len(calls[c].stack) :
              calls[c].stack[k].post => calls[c].stack[k].obj.kind \in {"tuple", "dict"}
    /\ \A i \in HashIdx : results[i].err.kind # "unknown_container"

\* C29: the bytes digested for a list, a tuple, a dict, a set, a frozenset, a
\* custom value and a scalar begin with prefixes none of which begins another,
\* so two values of different kinds are never digested from the same bytes,
\* whatever their children or the handler's output; and Finalize frames exist
\* for tuples and dicts only, so _finalize_container never raises.
KindsSeparated ==
    /\ PrefixesSeparate
    /\ DigestedBytesSeparate
    /\ FinalizeOnlyTupleDict

\* a set and a frozenset of the same two items were hashed, to different
\* digests of the same child digests
KindsSeparatedReached ==
    /\ Idle
    /\ plan = <<HashOp(VSet(<<VInt(1), VInt(12)>>), DefaultCacheSize),
                HashOp(VFrozenSet(<<VInt(1), VInt(12)>>), DefaultCacheSize)>>
    /\ Len(results) = 2
    /\ results[1].digest # results[2].digest
    /\ ChildDigests(results[1].digest) = ChildDigests(results[2].digest)

====
